---- MODULE Spec2Model ----
(***************************************************************************)
(* Proof-of-work difficulty retargeting and verification of Stohncoin      *)
(* (src/src/pow.cpp): GetNextWorkRequired, CalculateNextWorkRequired and   *)
(* CheckProofOfWork, over a chain of block index entries.                  *)
(*                                                                         *)
(* arith_uint256 is modelled as an unsigned integer of WIDTH bits          *)
(* (WIDTH = WidthBytes * ByteBits; 32 bytes of 8 bits in the program), all *)
(* of its arithmetic reduced modulo 2^WIDTH.  The compact form keeps its   *)
(* layout: a size in bytes, and a mantissa of three bytes whose top bit is *)
(* the sign.                                                               *)
(***************************************************************************)
EXTENDS Integers, Sequences, FiniteSets

VARIABLES params, chain, call

vars == <<params, chain, call>>

-----------------------------------------------------------------------------
(* Bounds of the model *)

\* bits in a byte of the scaled integer (8 in the program)
ByteBits == 2
\* bytes in the scaled arith_uint256 (32 in the program)
WidthBytes == 6
\* largest height a block of the modelled chain gets
MaxHeight == 7
\* largest target timespan the pure-function specifications draw
MaxTimespan == 5

-----------------------------------------------------------------------------
(* arith_uint256 *)

Pow2(n) == 2 ^ n

WIDTH == WidthBytes * ByteBits

Modulus == Pow2(WIDTH)

\* base_uint::bits(): position of the highest set bit plus one, 0 for zero
RECURSIVE bits(_)
bits(x) == IF x = 0 THEN 0 ELSE 1 + bits(x \div 2)

\* base_uint::operator<<=: bits shifted past the width are lost
ShiftLeft(x, n) == IF n >= WIDTH THEN 0 ELSE (x % Pow2(WIDTH - n)) * Pow2(n)

\* base_uint::operator>>=
ShiftRight(x, n) == IF n >= WIDTH THEN 0 ELSE x \div Pow2(n)

\* base_uint::operator*=(uint32_t): the product is reduced to the width
Mul(x, b) == (x * b) % Modulus

\* base_uint::operator/=
Div(x, b) == x \div b

\* the sign bit of the compact form (0x00800000)
SignBit == Pow2(3 * ByteBits - 1)

\* one past the largest three-byte mantissa (0x01000000)
MantissaSpan == Pow2(3 * ByteBits)

\* the sizes a compact value can carry that the model draws: every size that
\* fits the width, and the three smallest that overflow it
MaxSize == WidthBytes + 3

CompactValues == 0 .. ((MaxSize + 1) * MantissaSpan - 1)

\* arith_uint256::SetCompact: the magnitude and the two flags
SetCompact(nCompact) ==
    LET nSize == nCompact \div MantissaSpan
        nWord == nCompact % SignBit
        value == IF nSize <= 3
                 THEN ShiftRight(nWord, ByteBits * (3 - nSize))
                 ELSE ShiftLeft(nWord, ByteBits * (nSize - 3))
    IN [value |-> value,
        fNegative |-> nWord # 0 /\ (nCompact % MantissaSpan) >= SignBit,
        fOverflow |-> nWord # 0 /\ (\/ nSize > WidthBytes + 2
                                    \/ (nWord >= Pow2(ByteBits) /\ nSize > WidthBytes + 1)
                                    \/ (nWord >= Pow2(2 * ByteBits) /\ nSize > WidthBytes))]

\* arith_uint256::GetCompact(false)
GetCompact(x) ==
    LET nSize == (bits(x) + ByteBits - 1) \div ByteBits
        nCompact == IF nSize <= 3
                    THEN x * Pow2(ByteBits * (3 - nSize))
                    ELSE ShiftRight(x, ByteBits * (nSize - 3))
    IN IF nCompact >= SignBit
       THEN (nSize + 1) * MantissaSpan + (nCompact \div Pow2(ByteBits))
       ELSE nSize * MantissaSpan + nCompact

-----------------------------------------------------------------------------
(* Consensus::Params and the block index *)

\* Consensus::Params::DifficultyAdjustmentInterval()
DifficultyAdjustmentInterval == params.nPowTargetTimespan \div params.nPowTargetSpacing

\* Consensus::Params::DifficultyAdjustmentInterval_Fork()
DifficultyAdjustmentInterval_Fork == params.nPowTargetTimespan_Fork \div params.nPowTargetSpacing

\* a block index entry is named by its height; chain[h + 1] is the entry at
\* height h, and the pprev of the entry at height 0 is null
NullIndex == -1

pprev(pindex) == pindex - 1

GetBlockTime(pindex) == chain[pindex + 1].nTime

nBits(pindex) == chain[pindex + 1].nBits

-----------------------------------------------------------------------------
(* CalculateNextWorkRequired *)

\* ClampTimespan without its upper limit
ClampTimespan_NoUpperLimit(nActualTimespan, nTargetTimespan) ==
    IF nActualTimespan < nTargetTimespan \div 4
    THEN nTargetTimespan \div 4
    ELSE nActualTimespan

\* "Limit adjustment step"
ClampTimespan(nActualTimespan, nTargetTimespan) ==
    LET raised == IF nActualTimespan < nTargetTimespan \div 4
                  THEN nTargetTimespan \div 4
                  ELSE nActualTimespan
    IN IF raised > nTargetTimespan * 4 THEN nTargetTimespan * 4 ELSE raised

\* fShift: the old target is as long as the limit
ShiftNeeded(bnNew, bnPowLimit) == bits(bnNew) > bits(bnPowLimit) - 1

\* "Retarget": bnNew before it is compared with the limit
Retarget(bnOld, nActualTimespan, nTargetTimespan, bnPowLimit) ==
    LET fShift == ShiftNeeded(bnOld, bnPowLimit)
        shifted == IF fShift THEN ShiftRight(bnOld, 1) ELSE bnOld
        scaled == Div(Mul(shifted, nActualTimespan), nTargetTimespan)
    IN IF fShift THEN ShiftLeft(scaled, 1) ELSE scaled

\* LimitTarget without the comparison
LimitTarget_NoClamp(bnNew, bnPowLimit) == bnNew

\* bnNew is never above the limit
LimitTarget(bnNew, bnPowLimit) == IF bnNew > bnPowLimit THEN bnPowLimit ELSE bnNew

\* the call with everything it computes on the way
CalculateSteps(pindexLast, nFirstBlockTime, nTargetTimespan) ==
    LET nActualTimespan == GetBlockTime(pindexLast) - nFirstBlockTime
        clamped == ClampTimespan(nActualTimespan, nTargetTimespan)
        bnOld == SetCompact(nBits(pindexLast)).value
        bnNew == Retarget(bnOld, clamped, nTargetTimespan, params.powLimit)
    IN [nActualTimespan |-> nActualTimespan,
        clamped |-> clamped,
        bnOld |-> bnOld,
        bnNew |-> bnNew,
        result |-> IF params.fPowNoRetargeting
                   THEN nBits(pindexLast)
                   ELSE GetCompact(LimitTarget(bnNew, params.powLimit))]

CalculateNextWorkRequired(pindexLast, nFirstBlockTime, nTargetTimespan) ==
    CalculateSteps(pindexLast, nFirstBlockTime, nTargetTimespan).result

-----------------------------------------------------------------------------
(* GetNextWorkRequired *)

nProofOfWorkLimit == GetCompact(params.powLimit)

\* ActiveInterval with the fork one block late
ActiveInterval_AfterForkHeight(pindexLast) ==
    IF pindexLast > params.HardFork_Height
    THEN DifficultyAdjustmentInterval_Fork
    ELSE DifficultyAdjustmentInterval

\* the #HARDFORK2023 choice of the interval
ActiveInterval(pindexLast) ==
    IF pindexLast >= params.HardFork_Height
    THEN DifficultyAdjustmentInterval_Fork
    ELSE DifficultyAdjustmentInterval

\* the #HARDFORK2023 choice of the timespan
ActiveTimespan(pindexLast) ==
    IF pindexLast >= params.HardFork_Height
    THEN params.nPowTargetTimespan_Fork
    ELSE params.nPowTargetTimespan

\* MinDifficultyWalk on the pre-fork interval, as before #HARDFORK2023
RECURSIVE MinDifficultyWalk_PreForkInterval(_, _)
MinDifficultyWalk_PreForkInterval(pindex, difficultyAdjustmentInterval) ==
    IF /\ pprev(pindex) # NullIndex
       /\ pindex % DifficultyAdjustmentInterval # 0
       /\ nBits(pindex) = nProofOfWorkLimit
    THEN MinDifficultyWalk_PreForkInterval(pprev(pindex), difficultyAdjustmentInterval)
    ELSE pindex

\* MinDifficultyWalk without the test of the height
RECURSIVE MinDifficultyWalk_AnyHeight(_, _)
MinDifficultyWalk_AnyHeight(pindex, difficultyAdjustmentInterval) ==
    IF /\ pprev(pindex) # NullIndex
       /\ nBits(pindex) = nProofOfWorkLimit
    THEN MinDifficultyWalk_AnyHeight(pprev(pindex), difficultyAdjustmentInterval)
    ELSE pindex

\* "Return the last non-special-min-difficulty-rules-block": the while loop
RECURSIVE MinDifficultyWalk(_, _)
MinDifficultyWalk(pindex, difficultyAdjustmentInterval) ==
    IF /\ pprev(pindex) # NullIndex
       /\ pindex % difficultyAdjustmentInterval # 0
       /\ nBits(pindex) = nProofOfWorkLimit
    THEN MinDifficultyWalk(pprev(pindex), difficultyAdjustmentInterval)
    ELSE pindex

\* BlocksToGoBack without the case of the first retarget
BlocksToGoBack_FullInterval(pindexLast, difficultyAdjustmentInterval) ==
    difficultyAdjustmentInterval

\* blockstogoback
BlocksToGoBack(pindexLast, difficultyAdjustmentInterval) ==
    IF pindexLast + 1 # difficultyAdjustmentInterval
    THEN difficultyAdjustmentInterval
    ELSE difficultyAdjustmentInterval - 1

\* "Go back by what we want to be 14 days worth of blocks": the for loop
RECURSIVE GoBack(_, _, _)
GoBack(pindexFirst, i, blockstogoback) ==
    IF pindexFirst # NullIndex /\ i < blockstogoback
    THEN GoBack(pprev(pindexFirst), i + 1, blockstogoback)
    ELSE pindexFirst

\* GapRule measured against the timespan in place of the spacing
GapRule_Timespan(pindexLast, nBlockTime) ==
    nBlockTime > GetBlockTime(pindexLast) + params.nPowTargetTimespan * 2

\* the min-difficulty rule applies to the new block
GapRule(pindexLast, nBlockTime) ==
    nBlockTime > GetBlockTime(pindexLast) + params.nPowTargetSpacing * 2

\* the value GetNextWorkRequired returns when assert(pindexFirst) fails
Aborted == -1

\* the call with the branch it takes and the blocks it reaches
NextWorkSteps(pindexLast, nBlockTime) ==
    LET difficultyAdjustmentInterval == ActiveInterval(pindexLast)
        nTargetTimespan == ActiveTimespan(pindexLast)
        none == [branch |-> "none", pindex |-> NullIndex, blockstogoback |-> 0,
                 nTargetTimespan |-> 0, result |-> Aborted]
    IN IF (pindexLast + 1) % difficultyAdjustmentInterval # 0
       THEN IF params.fPowAllowMinDifficultyBlocks
            THEN IF GapRule(pindexLast, nBlockTime)
                 THEN [none EXCEPT !.branch = "gap", !.result = nProofOfWorkLimit]
                 ELSE LET pindex == MinDifficultyWalk(pindexLast, difficultyAdjustmentInterval)
                      IN [none EXCEPT !.branch = "walk", !.pindex = pindex,
                                      !.result = nBits(pindex)]
            ELSE [none EXCEPT !.branch = "same", !.result = nBits(pindexLast)]
       ELSE LET blockstogoback == BlocksToGoBack(pindexLast, difficultyAdjustmentInterval)
                pindexFirst == GoBack(pindexLast, 0, blockstogoback)
            IN IF pindexFirst = NullIndex
               THEN [none EXCEPT !.branch = "assert", !.blockstogoback = blockstogoback]
               ELSE [branch |-> "retarget", pindex |-> pindexFirst,
                     blockstogoback |-> blockstogoback,
                     nTargetTimespan |-> nTargetTimespan,
                     result |-> CalculateNextWorkRequired(
                                    pindexLast, GetBlockTime(pindexFirst), nTargetTimespan)]

GetNextWorkRequired(pindexLast, nBlockTime) == NextWorkSteps(pindexLast, nBlockTime).result

-----------------------------------------------------------------------------
(* CheckProofOfWork *)

\* CheckProofOfWork refusing a hash equal to the target
CheckProofOfWork_StrictlyBelow(hash, nCompact) ==
    LET decoded == SetCompact(nCompact)
        bnTarget == decoded.value
    IN IF \/ decoded.fNegative
          \/ bnTarget = 0
          \/ decoded.fOverflow
          \/ bnTarget > params.powLimit
       THEN FALSE
       ELSE IF hash >= bnTarget THEN FALSE ELSE TRUE

CheckProofOfWork(hash, nCompact) ==
    LET decoded == SetCompact(nCompact)
        bnTarget == decoded.value
    IN IF \/ decoded.fNegative
          \/ bnTarget = 0
          \/ decoded.fOverflow
          \/ bnTarget > params.powLimit
       THEN FALSE
       ELSE IF hash > bnTarget THEN FALSE ELSE TRUE

-----------------------------------------------------------------------------
(* The chain: blocks are accepted one after the other, each carrying the   *)
(* bits GetNextWorkRequired returns for its parent.                        *)

\* the difficulty limits drawn: the form of the main network (leading zero
\* bits, so that the product of the retarget fits the width once the target
\* is shifted) and the form of the regression network (one leading zero bit)
PowLimits == {Pow2(WIDTH - 5) - 1, Pow2(WIDTH - 1) - 1}

\* timespans, spacing and fork height drawn: a fork after two retargets of
\* an interval of 2 to an interval of 3, and a fork before the first retarget
\* of an interval of 3 to an interval of 4
Schedules ==
    {[nPowTargetTimespan |-> 4, nPowTargetTimespan_Fork |-> 6,
      nPowTargetSpacing |-> 2, HardFork_Height |-> 4],
     [nPowTargetTimespan |-> 6, nPowTargetTimespan_Fork |-> 8,
      nPowTargetSpacing |-> 2, HardFork_Height |-> 2]}

ConsensusParams ==
    {[powLimit |-> l,
      nPowTargetTimespan |-> s.nPowTargetTimespan,
      nPowTargetTimespan_Fork |-> s.nPowTargetTimespan_Fork,
      nPowTargetSpacing |-> s.nPowTargetSpacing,
      HardFork_Height |-> s.HardFork_Height,
      fPowAllowMinDifficultyBlocks |-> m,
      fPowNoRetargeting |-> r] :
        l \in PowLimits, s \in Schedules, m \in BOOLEAN, r \in BOOLEAN}

\* the bits of the genesis block: the limit, or a target sixteen times harder
GenesisBits(p) == {GetCompact(p.powLimit), GetCompact(p.powLimit \div 16)}

\* the time of a new block, relative to its parent's: before it, within
\* twice the spacing after it, and later than that
TimeSteps == {-1, 1, 5}

NoCall == [op |-> "none"]

Init ==
    /\ params \in ConsensusParams
    /\ \E b \in GenesisBits(params) : chain = <<[nTime |-> 0, nBits |-> b]>>
    /\ call = NoCall

\* a block with time nBlockTime is built on the tip
NextBlock(nBlockTime) ==
    /\ call.op # "aborted"
    /\ Len(chain) <= MaxHeight
    /\ LET pindexLast == Len(chain) - 1
           steps == NextWorkSteps(pindexLast, nBlockTime)
       IN /\ call' = [op |-> IF steps.result = Aborted THEN "aborted" ELSE "next",
                      pindexLast |-> pindexLast,
                      nBlockTime |-> nBlockTime,
                      steps |-> steps]
          /\ chain' = IF steps.result = Aborted
                      THEN chain
                      ELSE Append(chain, [nTime |-> nBlockTime, nBits |-> steps.result])
    /\ UNCHANGED params

Next == \E d \in TimeSteps : NextBlock(chain[Len(chain)].nTime + d)

Spec == Init /\ [][Next]_vars

-----------------------------------------------------------------------------
(* CalculateNextWorkRequired as a function of its arguments *)

\* the difficulty limits drawn: those of the chain and a short one
CalcPowLimits == PowLimits \cup {7}

\* the previous bits drawn: every compact value without the sign bit whose
\* size fits the width (the sign bit is not read by the retarget)
PreviousBits == {c \in CompactValues : /\ c % MantissaSpan < SignBit
                                       /\ c \div MantissaSpan <= WidthBytes + 2}

CalcParams(l, t) ==
    [powLimit |-> l, nPowTargetTimespan |-> t, nPowTargetTimespan_Fork |-> t,
     nPowTargetSpacing |-> 1, HardFork_Height |-> 0,
     fPowAllowMinDifficultyBlocks |-> FALSE, fPowNoRetargeting |-> FALSE]

\* the window starts at time 0; its last block is one second before it
CalcInit ==
    /\ \E l \in CalcPowLimits, t \in 1 .. MaxTimespan : params = CalcParams(l, t)
    /\ \E b \in PreviousBits : chain = <<[nTime |-> -1, nBits |-> b]>>
    /\ call = [op |-> "none", before |-> <<>>]

\* the call is made; the steps of the call before it are kept beside its own
Calculate ==
    /\ call.op = "none"
    /\ UNCHANGED <<params, chain>>
    /\ call' = [op |-> "calc",
                steps |-> CalculateSteps(0, 0, params.nPowTargetTimespan),
                before |-> call.before]

\* the window gets one second longer, for the next call
Elapse ==
    /\ call.op = "calc"
    /\ chain[1].nTime <= 4 * params.nPowTargetTimespan
    /\ chain' = <<[chain[1] EXCEPT !.nTime = @ + 1]>>
    /\ UNCHANGED params
    /\ call' = [op |-> "none", before |-> <<call.steps>>]

CalcNext == Calculate \/ Elapse

CalcSpec == CalcInit /\ [][CalcNext]_vars

-----------------------------------------------------------------------------
(* CheckProofOfWork as a function of its arguments *)

\* the hashes drawn for a target: the ends of the range, the target and its
\* two neighbours
Hashes(bnTarget) ==
    {0, Modulus - 1} \cup ({bnTarget - 1, bnTarget, bnTarget + 1} \cap (0 .. Modulus - 1))

PowInit ==
    /\ \E l \in CalcPowLimits : params = CalcParams(l, 1)
    /\ chain = <<>>
    /\ \E c \in CompactValues : \E h \in Hashes(SetCompact(c).value) :
          call = [op |-> "none", hash |-> h, nBits |-> c]

Check ==
    /\ call.op = "none"
    /\ UNCHANGED <<params, chain>>
    /\ call' = [op |-> "check", hash |-> call.hash, nBits |-> call.nBits,
                result |-> CheckProofOfWork(call.hash, call.nBits)]

PowNext == Check

PowSpec == PowInit /\ [][PowNext]_vars
-----------------------------------------------------------------------------
(* What the claims speak of, stated on the parameters and the chain alone *)

\* the adjustment interval of the regime a last block of height h is under
RegimeInterval(h) ==
    IF h < params.HardFork_Height
    THEN params.nPowTargetTimespan \div params.nPowTargetSpacing
    ELSE params.nPowTargetTimespan_Fork \div params.nPowTargetSpacing

\* the target timespan of that regime
RegimeTimespan(h) ==
    IF h < params.HardFork_Height
    THEN params.nPowTargetTimespan
    ELSE params.nPowTargetTimespan_Fork

\* the block after the one at height h is a retarget
OnBoundary(h) == (h + 1) % RegimeInterval(h) = 0

\* the compact form of the difficulty limit
LimitCompact == GetCompact(params.powLimit)

\* the first block at or before height h, going back, that satisfies stop(_)
FirstGoingBack(h, stop(_)) ==
    CHOOSE g \in 0 .. h : stop(g) /\ \A k \in (g + 1) .. h : ~stop(k)

\* a GetNextWorkRequired call has returned for the last block at call.pindexLast
Returned == call.op = "next"

TimeOf(h) == chain[h + 1].nTime

BitsOf(h) == chain[h + 1].nBits

-----------------------------------------------------------------------------
\* C1: CheckProofOfWork returns true exactly when the decoded target is not
\* negative, not overflowing, non-zero and at most the difficulty limit, and
\* the hash is at most the target; so it is true for a hash equal to the
\* target and false for the hash one above it, and a malformed target gives
\* false.
C1_CheckProofOfWork ==
    call.op = "check" =>
        LET d == SetCompact(call.nBits)
            inRange == /\ ~d.fNegative
                       /\ ~d.fOverflow
                       /\ d.value # 0
                       /\ d.value <= params.powLimit
        IN /\ call.result \in BOOLEAN
           /\ call.result <=> (inRange /\ call.hash <= d.value)
           /\ (inRange /\ call.hash = d.value) => call.result
           /\ (call.hash = d.value + 1) => ~call.result

\* a hash equal to a target in range has been accepted
C1_Witness ==
    /\ call.op = "check"
    /\ call.result
    /\ call.hash = SetCompact(call.nBits).value
    /\ call.hash < params.powLimit

-----------------------------------------------------------------------------
\* C2: off a retarget boundary of the active regime, with both flags false,
\* GetNextWorkRequired returns the bits of the last block.
C2_NoRetargetPath ==
    (/\ Returned
     /\ ~OnBoundary(call.pindexLast)
     /\ ~params.fPowAllowMinDifficultyBlocks
     /\ ~params.fPowNoRetargeting)
    => /\ call.steps.result = BitsOf(call.pindexLast)
       /\ BitsOf(call.pindexLast + 1) = BitsOf(call.pindexLast)

\* the bits returned off the boundary are those an earlier retarget set
C2_Witness ==
    /\ Returned
    /\ ~OnBoundary(call.pindexLast)
    /\ ~params.fPowAllowMinDifficultyBlocks
    /\ ~params.fPowNoRetargeting
    /\ call.pindexLast >= params.HardFork_Height
    /\ BitsOf(call.pindexLast) # BitsOf(0)

-----------------------------------------------------------------------------
\* C3 as stated: with the min-difficulty flag true and the new block more than
\* twice the spacing after the last one, GetNextWorkRequired returns the
\* compact form of the difficulty limit, at every height of the last block.
C3_GapRuleAtEveryHeight ==
    (/\ Returned
     /\ params.fPowAllowMinDifficultyBlocks
     /\ call.nBlockTime > TimeOf(call.pindexLast) + 2 * params.nPowTargetSpacing)
    => call.steps.result = LimitCompact

\* C3 as amended: the same, for a last block off a retarget boundary of the
\* active regime.
C3_GapRuleOffBoundary ==
    (/\ Returned
     /\ params.fPowAllowMinDifficultyBlocks
     /\ call.nBlockTime > TimeOf(call.pindexLast) + 2 * params.nPowTargetSpacing
     /\ ~OnBoundary(call.pindexLast))
    => call.steps.result = LimitCompact

\* the gap rule has given the limit to the child of a harder block
C3_Witness ==
    /\ Returned
    /\ params.fPowAllowMinDifficultyBlocks
    /\ call.nBlockTime > TimeOf(call.pindexLast) + 2 * params.nPowTargetSpacing
    /\ ~OnBoundary(call.pindexLast)
    /\ BitsOf(call.pindexLast) # LimitCompact
    /\ BitsOf(call.pindexLast + 1) = LimitCompact

-----------------------------------------------------------------------------
\* C4: GetNextWorkRequired is under the post-fork interval and timespan
\* exactly when the last block's height is at least the fork height, and it
\* uses that pair in the boundary test, in the min-difficulty walk, in the
\* length of the look-back window and in the timespan it passes on.
C4_RegimeUsedThroughout ==
    Returned =>
        LET h == call.pindexLast
            st == call.steps
            interval == RegimeInterval(h)
            back == IF h + 1 = interval THEN interval - 1 ELSE interval
            stop(g) == g = 0 \/ g % interval = 0 \/ BitsOf(g) # LimitCompact
        IN /\ (st.branch = "retarget") <=> ((h + 1) % interval = 0)
           /\ st.branch = "walk" => st.pindex = FirstGoingBack(h, stop)
           /\ st.branch = "retarget" =>
                 /\ st.blockstogoback = back
                 /\ st.pindex = h - back
                 /\ st.nTargetTimespan = RegimeTimespan(h)
                 /\ st.result = CalculateNextWorkRequired(h, TimeOf(h - back), RegimeTimespan(h))

\* a retarget under the post-fork interval at a height where the pre-fork
\* interval has no boundary
C4_Witness ==
    /\ Returned
    /\ call.pindexLast >= params.HardFork_Height
    /\ call.steps.branch = "retarget"
    /\ (call.pindexLast + 1) % (params.nPowTargetTimespan \div params.nPowTargetSpacing) # 0
    /\ ~params.fPowNoRetargeting
    /\ call.steps.result # BitsOf(call.pindexLast)

-----------------------------------------------------------------------------
\* C7: on a chain whose genesis target is in range and whose later blocks
\* carry the bits GetNextWorkRequired returned for their parents, every
\* block's bits decode to a target that is not negative and at most the
\* difficulty limit.
C7_TargetsInRange ==
    \A i \in 1 .. Len(chain) :
        LET d == SetCompact(chain[i].nBits)
        IN ~d.fNegative /\ ~d.fOverflow /\ d.value <= params.powLimit

\* a retarget whose new target was above the limit has set a block's bits
C7_Witness ==
    /\ Returned
    /\ call.steps.branch = "retarget"
    /\ ~params.fPowNoRetargeting
    /\ CalculateSteps(call.pindexLast, TimeOf(call.steps.pindex),
                      call.steps.nTargetTimespan).bnNew > params.powLimit
    /\ BitsOf(call.pindexLast + 1) = LimitCompact

-----------------------------------------------------------------------------
\* C8: at a retarget boundary of the active regime the look-back walk never
\* runs past genesis: it goes back the interval, or the interval less one when
\* the new block is the first retarget, and ends on the block that many
\* heights below the last one, which is genesis at the first retarget.
C8_WalkStaysOnChain ==
    /\ call.op # "aborted"
    /\ (Returned /\ OnBoundary(call.pindexLast)) =>
          LET h == call.pindexLast
              st == call.steps
              interval == RegimeInterval(h)
          IN /\ st.branch = "retarget"
             /\ st.pindex # NullIndex
             /\ st.blockstogoback = (IF h + 1 = interval THEN interval - 1 ELSE interval)
             /\ st.pindex = (IF h + 1 = interval THEN 0 ELSE h - interval)
             /\ st.pindex \in 0 .. h

\* the first retarget of the post-fork regime has ended its walk on genesis
C8_Witness ==
    /\ Returned
    /\ OnBoundary(call.pindexLast)
    /\ call.pindexLast >= params.HardFork_Height
    /\ call.pindexLast + 1 = RegimeInterval(call.pindexLast)
    /\ call.steps.pindex = 0

-----------------------------------------------------------------------------
\* C9 as stated: with the min-difficulty flag true, off a boundary and within
\* twice the spacing, the walk ends at genesis or at the first block at or
\* before the last one whose bits are not the limit's, the call returns that
\* block's bits, and they differ from the limit's unless the walk reached
\* genesis.
C9_WalkEndsAtRealDifficulty ==
    (/\ Returned
     /\ params.fPowAllowMinDifficultyBlocks
     /\ ~OnBoundary(call.pindexLast)
     /\ call.nBlockTime <= TimeOf(call.pindexLast) + 2 * params.nPowTargetSpacing)
    => LET st == call.steps
           stop(g) == g = 0 \/ BitsOf(g) # LimitCompact
       IN /\ st.pindex = FirstGoingBack(call.pindexLast, stop)
          /\ st.result = BitsOf(st.pindex)
          /\ st.result # LimitCompact \/ st.pindex = 0

\* C9 as amended: the walk ends at genesis, at a block whose height is a
\* multiple of the active interval, or at the first block whose bits are not
\* the limit's, whichever comes first going back; the call returns that
\* block's bits, and they differ from the limit's unless the walk ended at
\* genesis or at a multiple of the interval.
C9_WalkEndsAtRealDifficultyOrInterval ==
    (/\ Returned
     /\ params.fPowAllowMinDifficultyBlocks
     /\ ~OnBoundary(call.pindexLast)
     /\ call.nBlockTime <= TimeOf(call.pindexLast) + 2 * params.nPowTargetSpacing)
    => LET st == call.steps
           interval == RegimeInterval(call.pindexLast)
           stop(g) == g = 0 \/ g % interval = 0 \/ BitsOf(g) # LimitCompact
       IN /\ st.branch = "walk"
          /\ st.pindex = FirstGoingBack(call.pindexLast, stop)
          /\ st.result = BitsOf(st.pindex)
          /\ st.result # LimitCompact \/ st.pindex = 0 \/ st.pindex % interval = 0

\* the walk has gone back over min-difficulty blocks and ended on a block
\* above genesis, at a multiple of the interval, that has the limit's bits
C9_Witness ==
    /\ Returned
    /\ call.steps.branch = "walk"
    /\ call.steps.pindex < call.pindexLast
    /\ call.steps.pindex > 0
    /\ call.steps.pindex % RegimeInterval(call.pindexLast) = 0
    /\ call.steps.result = LimitCompact

-----------------------------------------------------------------------------
(* The retarget in unbounded arithmetic *)

Calculated == call.op = "calc"

\* 1 when the previous magnitude m is shifted before the multiplication
ShiftOf(m) == IF bits(m) >= bits(params.powLimit) THEN 1 ELSE 0

\* the product of the shifted magnitude and the clamped timespan
ProductOf(m, clamped) == (m \div Pow2(ShiftOf(m))) * clamped

\* the new magnitude before the limit is applied
QuotientOf(m, clamped) ==
    (ProductOf(m, clamped) \div params.nPowTargetTimespan) * Pow2(ShiftOf(m))

\* neither the product nor the shift back goes past the width
FitsWidth(m, clamped) ==
    ProductOf(m, clamped) < Modulus /\ QuotientOf(m, clamped) < Modulus

-----------------------------------------------------------------------------
-----------------------------------------------------------------------------
\* C6: with the previous bits, the target timespan and the limit fixed, the
\* magnitude CalculateNextWorkRequired returns does not decrease when the
\* window gets longer.
C6_MonotoneInTimespan ==
    (/\ Calculated
     /\ call.before # <<>>
     /\ call.before[1].nActualTimespan <= call.steps.nActualTimespan)
    => SetCompact(call.before[1].result).value <= SetCompact(call.steps.result).value

-----------------------------------------------------------------------------
\* C10: for a previous target at most the limit, the product of the shifted
\* magnitude and the clamped timespan stays within the width, so the value
\* before the limit clamp is the one unbounded arithmetic gives.
C10_ProductFitsWidth ==
    (Calculated /\ call.steps.bnOld <= params.powLimit) =>
        /\ ProductOf(call.steps.bnOld, call.steps.clamped) < Modulus
        /\ call.steps.bnNew = QuotientOf(call.steps.bnOld, call.steps.clamped)

====
